---- MODULE Spec2Model ----
(***************************************************************************)
(* Model of bindgen/gen_zig.py: the generator that reads a declaration     *)
(* list (structs, enums, constant groups, functions with string-encoded C  *)
(* types) and emits Zig bindings.                                          *)
(*                                                                         *)
(* Strings.  A Python string that the code only compares, concatenates or  *)
(* prints is a TLA+ string.  A C type string, which the code also searches *)
(* (substring test, s.index, s.split(), the two array regexes), is the     *)
(* sequence of its lexical tokens: maximal \w+ runs, single blanks and     *)
(* single punctuation characters; Text(s) is the Python string itself.     *)
(* An identifier, which the code splits on '_', has its split in split_us. *)
(***************************************************************************)
EXTENDS Naturals, Sequences, FiniteSets, TLC

VARIABLES
    inp_file,        \* the document stored at input_path (the environment)
    out_file,        \* the file at output_path: [exists, text]
    pc,              \* position of gen_zig: idle, helper, pre_parse, emit, open_out, write, done
    inp,             \* the loaded document (json.load), NoInp before
    idx,             \* index of the next declaration in the running loop
    struct_types,    \* global list struct_types
    c_struct_types,  \* global list c_struct_types
    enum_types,      \* global list enum_types
    enum_items,      \* global dict enum_items: name -> list of item names
    out_lines,       \* global string out_lines, as its sequence of lines
    reported,        \* what the except clause printed for the current run
    runs             \* number of gen_zig calls made by this process

vars == <<inp_file, out_file, pc, inp, idx, struct_types, c_struct_types,
          enum_types, enum_items, out_lines, reported, runs>>

registries == <<struct_types, c_struct_types, enum_types, enum_items>>

-----------------------------------------------------------------------------
(* Bounds of the model *)

MaxDecls == 2     \* declarations in a document of the ordering family
MaxFields == 2    \* fields of a struct / parameters of a function
MaxRuns == 2      \* gen_zig calls in one process

-----------------------------------------------------------------------------
(* Generic sequence helpers *)

Range(s) == {s[i] : i \in DOMAIN s}

RECURSIVE Concat(_)
\* ''.join(parts)
Concat(parts) ==
    IF parts = <<>> THEN "" ELSE Head(parts) \o Concat(Tail(parts))

RECURSIVE Join(_, _)
\* sep.join(parts)
Join(parts, sep) ==
    IF parts = <<>> THEN ""
    ELSE IF Len(parts) = 1 THEN parts[1]
    ELSE parts[1] \o sep \o Join(Tail(parts), sep)

\* the tokens of s from position i to the end (s[i-1:] in Python)
DropBefore(s, i) == SubSeq(s, i, Len(s))

\* index of the first token of s for which s[i] = t, 0 when there is none
IndexOf(s, t) ==
    IF t \in Range(s) THEN CHOOSE i \in DOMAIN s : s[i] = t /\ \A j \in 1..(i-1) : s[j] # t
    ELSE 0

RECURSIVE Strip(_)
\* str.strip() of a token sequence: blanks removed at both ends
Strip(s) ==
    IF s = <<>> THEN s
    ELSE IF Head(s) = " " THEN Strip(Tail(s))
    ELSE IF s[Len(s)] = " " THEN Strip(SubSeq(s, 1, Len(s) - 1))
    ELSE s

\* the Python string a token sequence stands for
Text(s) == Concat(s)

RECURSIVE SplitOn(_, _, _)
\* split a token sequence at every token sep; cur is the piece being read
SplitOn(s, sep, cur) ==
    IF s = <<>> THEN <<cur>>
    ELSE IF Head(s) = sep THEN <<cur>> \o SplitOn(Tail(s), sep, <<>>)
    ELSE SplitOn(Tail(s), sep, Append(cur, Head(s)))

\* str.split(): the maximal blank-free pieces, as strings
SplitWS(s) ==
    LET pieces == SplitOn(s, " ", <<>>)
        kept == SelectSeq(pieces, LAMBDA p : p # <<>>)
    IN  [i \in DOMAIN kept |-> Text(kept[i])]

-----------------------------------------------------------------------------
(* Lexical classes of tokens *)

PunctTokens == {" ", "*", "[", "]", "(", ")", ",", ":"}
DigitTokens == {"0", "1", "2", "3", "4", "8", "16"}

\* \w+ : a token that is no blank and no punctuation
IsWord(t) == t \notin PunctTokens
\* \d+
IsDigits(t) == t \in DigitTokens

-----------------------------------------------------------------------------
(* Tables of the module *)

prim_types ==
    [int |-> "i32", bool |-> "bool", int8_t |-> "i8", uint8_t |-> "u8",
     int16_t |-> "i16", uint16_t |-> "u16", int32_t |-> "i32",
     uint32_t |-> "u32", int64_t |-> "i64", uint64_t |-> "u64",
     float |-> "f32", double |-> "f64"]

prim_defaults ==
    [int |-> "0", bool |-> "false", int8_t |-> "0", uint8_t |-> "0",
     int16_t |-> "0", uint16_t |-> "0", int32_t |-> "0",
     uint32_t |-> "0", int64_t |-> "0", uint64_t |-> "0",
     float |-> "0.0", double |-> "0.0"]

-----------------------------------------------------------------------------
(* Identifiers of the modelled documents and their character-level views *)

\* s.split('_') for the identifiers the documents use
split_us(s) ==
    CASE s = "sg_a" -> <<"sg", "a">>
      [] s = "sg_b" -> <<"sg", "b">>
      [] s = "sg_buffer_desc" -> <<"sg", "buffer", "desc">>
      [] s = "sg_usage" -> <<"sg", "usage">>
      [] s = "_SG_USAGE_DEFAULT" -> <<"", "SG", "USAGE", "DEFAULT">>
      [] s = "SG_USAGE_IMMUTABLE" -> <<"SG", "USAGE", "IMMUTABLE">>
      [] s = "SG_USAGE_3D" -> <<"SG", "USAGE", "3D">>
      [] s = "_SG_USAGE_FORCE_U32" -> <<"", "SG", "USAGE", "FORCE", "U32">>
      [] s = "SG_INVALID_ID" -> <<"SG", "INVALID", "ID">>
      [] s = "SAPP_MAX_TOUCHPOINTS" -> <<"SAPP", "MAX", "TOUCHPOINTS">>
      [] s = "sg_" -> <<"sg", "">>
      [] s = "sapp_" -> <<"sapp", "">>
      [] OTHER -> <<s>>

\* str.lower() of one '_'-free segment
lower(seg) ==
    CASE seg = "SG" -> "sg"
      [] seg = "SAPP" -> "sapp"
      [] seg = "INVALID" -> "invalid"
      [] seg = "ID" -> "id"
      [] seg = "MAX" -> "max"
      [] seg = "TOUCHPOINTS" -> "touchpoints"
      [] OTHER -> seg

\* str.capitalize() of one lower-case segment
capitalize(seg) ==
    CASE seg = "a" -> "A"
      [] seg = "b" -> "B"
      [] seg = "buffer" -> "Buffer"
      [] seg = "desc" -> "Desc"
      [] seg = "usage" -> "Usage"
      [] seg = "sg" -> "Sg"
      [] OTHER -> seg

\* whether a segment starts with a decimal digit
starts_with_digit(seg) == seg \in {"3D"}

-----------------------------------------------------------------------------
(* Name Transformer *)

\* PREFIX_BLA_BLUB to bla_blub; prefix is of the form "<seg>_"
as_const_name(s, prefix) ==
    LET segs == split_us(s)
        outp == [i \in DOMAIN segs |-> lower(segs[i])]
        pre == split_us(prefix)
        n == Len(pre) - 1
        starts == /\ Len(outp) > n
                  /\ SubSeq(outp, 1, n) = SubSeq(pre, 1, n)
                  /\ pre[Len(pre)] = ""
    IN  IF starts THEN Join(DropBefore(outp, n + 1), "_") ELSE Join(outp, "_")

as_zig_prim_type(s) == prim_types[s]

\* prefix_bla_blub => BlaBlub
as_zig_type(s) ==
    LET segs == split_us(s)
        parts == DropBefore([i \in DOMAIN segs |-> lower(segs[i])], 2)
    IN  Concat([i \in DOMAIN parts |-> capitalize(parts[i])])

\* PREFIX_ENUM_BLA => Bla, _PREFIX_ENUM_BLA => Bla
as_enum_item_name(s) ==
    LET segs == split_us(s)
        stripped == IF segs[1] = "" /\ Len(segs) > 1 THEN Tail(segs) ELSE segs
        parts == DropBefore(stripped, 3)
        outp == Join(parts, "_")
    IN  IF starts_with_digit(parts[1]) THEN "_" \o outp ELSE outp

-----------------------------------------------------------------------------
(* Type Classifier.  st and et are the lists struct_types and enum_types   *)
(* at the moment of the call; s is a type string as its token sequence.    *)

is_prim_type(s) == Text(s) \in DOMAIN prim_types

is_struct_type(s, st) == Text(s) \in Range(st)

is_enum_type(s, et) == Text(s) \in Range(et)

is_string_ptr(s) == Text(s) = "const char *"

is_const_void_ptr(s) == Text(s) = "const void *"

is_void_ptr(s) == Text(s) = "void *"

is_prim_ptr(s) ==
    \E prim_type \in DOMAIN prim_types : Text(s) = "const " \o prim_type \o " *"

is_struct_ptr(s, st) ==
    \E struct_type \in Range(st) : Text(s) = "const " \o struct_type \o " *"

\* the substring test for a parenthesised star
is_func_ptr(s) ==
    \E i \in 1..(Len(s) - 2) : s[i] = "(" /\ s[i+1] = "*" /\ s[i+2] = ")"

\* tokens a regex "(?:const )?\w*\s\*?" consumes, followed by n bracket groups
\* "\[\d*\]" and the end of the string
match_array(s, n) ==
    \E a \in {0, 2}, w \in {0, 1}, p \in {0, 1} :
        LET h == a + w + 1 + p IN
        /\ Len(s) >= h
        /\ a = 2 => (s[1] = "const" /\ s[2] = " ")
        /\ w = 1 => IsWord(s[a + 1])
        /\ s[a + w + 1] = " "
        /\ p = 1 => s[a + w + 2] = "*"
        /\ LET groups == SplitOn(DropBefore(s, h + 1), "]", <<>>) IN
           /\ Len(groups) = n + 1
           /\ groups[n + 1] = <<>>
           /\ \A g \in 1..n :
                \/ groups[g] = <<"[">>
                \/ Len(groups[g]) = 2 /\ groups[g][1] = "[" /\ IsDigits(groups[g][2])

\* re_1d_array.match(s)
is_1d_array_type(s) == match_array(s, 1)

\* re_2d_array.match(s)
is_2d_array_type(s) == match_array(s, 2)

type_default_value(s) == prim_defaults[Text(s)]

\* s[:s.index('[')].strip()
extract_array_type(s) == Strip(SubSeq(s, 1, IndexOf(s, "[") - 1))

\* s[s.index('['):].replace('[', ' ').replace(']', ' ').split()
extract_array_nums(s) ==
    SelectSeq(DropBefore(s, IndexOf(s, "[")), LAMBDA t : t \notin {"[", "]", " "})

\* tokens = s.split(); tokens[1] after a leading 'const', else tokens[0]
extract_ptr_type(s) ==
    LET tokens == SplitWS(s)
    IN  IF tokens[1] = "const" THEN tokens[2] ELSE tokens[1]

-----------------------------------------------------------------------------
(* Foreign-interface types *)

as_extern_c_type(arg_type, st, et) ==
    IF Text(arg_type) = "void" THEN "void"
    ELSE IF is_prim_type(arg_type) THEN as_zig_prim_type(Text(arg_type))
    ELSE IF is_struct_type(arg_type, st) THEN as_zig_type(Text(arg_type))
    ELSE IF is_enum_type(arg_type, et) THEN as_zig_type(Text(arg_type))
    ELSE IF is_void_ptr(arg_type) THEN "?*c_void"
    ELSE IF is_const_void_ptr(arg_type) THEN "?*const c_void"
    ELSE IF is_string_ptr(arg_type) THEN "[*c]const u8"
    ELSE IF is_struct_ptr(arg_type, st)
         THEN "[*c]const " \o as_zig_type(extract_ptr_type(arg_type))
    ELSE "???"

RECURSIVE funcptr_args_loop(_, _, _, _)
\* the loop of funcptr_args_c over the remaining comma-separated tokens
funcptr_args_loop(tokens, s, st, et) ==
    IF tokens = <<>> THEN s
    ELSE LET arg_type == Strip(Head(tokens))
             s1 == IF s # "" THEN s \o ", " ELSE s
             c_arg == as_extern_c_type(arg_type, st, et)
         IN  IF c_arg = "void" THEN ""
             ELSE funcptr_args_loop(Tail(tokens), s1 \o c_arg, st, et)

\* index of the first token of the substring "(" "*" ")" in s
funcptr_index(s) ==
    CHOOSE i \in 1..(Len(s) - 2) :
        /\ s[i] = "(" /\ s[i+1] = "*" /\ s[i+2] = ")"
        /\ \A j \in 1..(i-1) : ~(s[j] = "(" /\ s[j+1] = "*" /\ s[j+2] = ")")

\* get C-style arguments of a function pointer as string
funcptr_args_c(field_type, st, et) ==
    LET tokens == SplitOn(SubSeq(field_type, funcptr_index(field_type) + 4,
                                 Len(field_type) - 1), ",", <<>>)
    IN  funcptr_args_loop(tokens, "", st, et)

\* get C-style result of a function pointer as string
funcptr_res_c(field_type) ==
    LET res_type == Strip(SubSeq(field_type, 1, funcptr_index(field_type) - 1))
    IN  IF Text(res_type) = "void" THEN "void"
        ELSE IF is_const_void_ptr(res_type) THEN "?*const c_void"
        ELSE "???"

RECURSIVE funcdecl_args_loop(_, _, _, _)
funcdecl_args_loop(params, s, st, et) ==
    IF params = <<>> THEN s
    ELSE LET s1 == IF s # "" THEN s \o ", " ELSE s
         IN  funcdecl_args_loop(Tail(params),
                                s1 \o as_extern_c_type(Head(params).type, st, et),
                                st, et)

funcdecl_args_c(decl, st, et) == funcdecl_args_loop(decl.params, "", st, et)

funcdecl_res_c(decl, st, et) ==
    LET res_type == Strip(SubSeq(decl.type, 1, IndexOf(decl.type, "(") - 1))
    IN  as_extern_c_type(res_type, st, et)

-----------------------------------------------------------------------------
(* Layout Compatibility Analyzer *)

\* faulty variant: every field that is neither a primitive nor a compatible
\* struct makes the struct incompatible
struct_is_c_compatible_strict(decl, st, cst) ==
    \A i \in DOMAIN decl.fields :
        \/ is_prim_type(decl.fields[i].type)
        \/ Text(decl.fields[i].type) \in Range(cst)

\* test if a struct has a C compatible memory layout
struct_is_c_compatible(decl, st, cst) ==
    \A i \in DOMAIN decl.fields :
        is_struct_type(decl.fields[i].type, st)
            => Text(decl.fields[i].type) \in Range(cst)

-----------------------------------------------------------------------------
(* Declaration Emitter: every operator returns the lines it appends with l() *)

enum_default_item(enum_name, ei) == ei[enum_name][1]

\* the branch of gen_struct's loop body taken for a 1D array field
gen_struct_1d_array(field_name, field_type, st) ==
    LET array_type == extract_array_type(field_type)
        array_nums == extract_array_nums(field_type)
    IN  IF is_prim_type(array_type) THEN
            LET zig_type == as_zig_prim_type(Text(array_type))
                t0 == "[" \o array_nums[1] \o "]" \o zig_type
                t1 == "[_]" \o zig_type
                def_val == type_default_value(array_type)
            IN  <<"    " \o field_name \o ": " \o t0 \o " = " \o t1 \o "{"
                  \o def_val \o "} ** " \o array_nums[1] \o ",">>
        ELSE IF is_struct_type(array_type, st) THEN
            LET zig_type == as_zig_type(Text(array_type))
                t0 == "[" \o array_nums[1] \o "]" \o zig_type
                t1 == "[_]" \o zig_type
            IN  <<"    " \o field_name \o ": " \o t0 \o " = " \o t1
                  \o "{ .{ } } ** " \o array_nums[1] \o ",">>
        ELSE IF is_const_void_ptr(array_type) THEN
            <<"    " \o field_name \o ": [" \o array_nums[1]
              \o "]?*const c_void = [_]?*const c_void { null } ** "
              \o array_nums[1] \o ",">>
        ELSE
            <<"//    FIXME: ??? array " \o field_name \o ": " \o Text(field_type)
              \o " => " \o Text(array_type) \o " [" \o array_nums[1] \o "]">>

\* the branch of gen_struct's loop body taken for a 2D array field
gen_struct_2d_array(field_name, field_type, st) ==
    LET array_type == extract_array_type(field_type)
        array_nums == extract_array_nums(field_type)
    IN  IF is_prim_type(array_type) THEN
            <<"// FIXME: 2D array with primitive type: " \o field_name>>
        ELSE IF is_struct_type(array_type, st) THEN
            LET zig_type == as_zig_type(Text(array_type))
                t0 == "[" \o array_nums[1] \o "][" \o array_nums[2] \o "]" \o zig_type
            IN  <<"    " \o field_name \o ": " \o t0 \o " = [_][" \o array_nums[2]
                  \o "]" \o zig_type \o "{[_]" \o zig_type \o "{ .{ } }**"
                  \o array_nums[2] \o "}**" \o array_nums[1] \o ",">>
        ELSE <<>>

\* faulty variant: the last branch emits nothing, as the 2D array branch does
gen_struct_unrecognized_silent(field_name, field_type) == <<>>

\* the last branch of gen_struct's loop body: no classifier test matched
gen_struct_unrecognized(field_name, field_type) ==
    <<"//  " \o field_name \o ": " \o Text(field_type) \o ";">>

\* the body of gen_struct's loop for one field
gen_struct_field(field, st, et, ei) ==
    LET field_name == field.name
        field_type == field.type
    IN  IF is_prim_type(field_type) THEN
            <<"    " \o field_name \o ": " \o as_zig_prim_type(Text(field_type))
              \o " = " \o type_default_value(field_type) \o ",">>
        ELSE IF is_struct_type(field_type, st) THEN
            <<"    " \o field_name \o ": " \o as_zig_type(Text(field_type)) \o " = .{ },">>
        ELSE IF is_enum_type(field_type, et) THEN
            <<"    " \o field_name \o ": " \o as_zig_type(Text(field_type)) \o " = ."
              \o enum_default_item(Text(field_type), ei) \o ",">>
        ELSE IF is_string_ptr(field_type) THEN
            <<"    " \o field_name \o ": [*c]const u8 = null,">>
        ELSE IF is_const_void_ptr(field_type) THEN
            <<"    " \o field_name \o ": ?*const c_void = null,">>
        ELSE IF is_void_ptr(field_type) THEN
            <<"    " \o field_name \o ": ?*c_void = null,">>
        ELSE IF is_prim_ptr(field_type) THEN
            <<"    " \o field_name \o ": ?[*]const "
              \o as_zig_prim_type(extract_ptr_type(field_type)) \o " = null,">>
        ELSE IF is_func_ptr(field_type) THEN
            <<"    " \o field_name \o ": ?fn(" \o funcptr_args_c(field_type, st, et)
              \o ") callconv(.C) " \o funcptr_res_c(field_type) \o ",">>
        ELSE IF is_1d_array_type(field_type) THEN
            gen_struct_1d_array(field_name, field_type, st)
        ELSE IF is_2d_array_type(field_type) THEN
            gen_struct_2d_array(field_name, field_type, st)
        ELSE
            gen_struct_unrecognized(field_name, field_type)

RECURSIVE gen_struct_fields(_, _, _, _)
gen_struct_fields(fields, st, et, ei) ==
    IF fields = <<>> THEN <<>>
    ELSE gen_struct_field(Head(fields), st, et, ei)
         \o gen_struct_fields(Tail(fields), st, et, ei)

gen_struct(decl, st, cst, et, ei) ==
    LET zig_type == as_zig_type(decl.name)
    IN  << IF decl.name \in Range(cst)
           THEN "pub const " \o zig_type \o " = extern struct {"
           ELSE "pub const " \o zig_type \o " = struct {",
           "    pub fn init(options: anytype) " \o zig_type \o " { var item: "
             \o zig_type \o " = .{ }; init_with(&item, options); return item; }" >>
        \o gen_struct_fields(decl.fields, st, et, ei)
        \o << "};" >>

gen_consts(decl, prefix) ==
    [i \in DOMAIN decl.items |->
        "pub const " \o as_const_name(decl.items[i].name, prefix) \o " = "
        \o decl.items[i].value \o ";"]

\* the body of gen_enum's loop for one item
gen_enum_item(item) ==
    LET item_name == as_enum_item_name(item.name)
    IN  IF item_name # "FORCE_U32"
        THEN IF item.has_value
             THEN <<"    " \o item_name \o " = " \o item.value \o ",">>
             ELSE <<"    " \o item_name \o ",">>
        ELSE <<>>

RECURSIVE gen_enum_items(_)
gen_enum_items(items) ==
    IF items = <<>> THEN <<>>
    ELSE gen_enum_item(Head(items)) \o gen_enum_items(Tail(items))

gen_enum(decl) ==
    <<"pub const " \o as_zig_type(decl.name) \o " = extern enum(i32) {">>
    \o gen_enum_items(decl.items)
    \o <<"};">>

gen_func_c(decl, st, et) ==
    <<"pub extern fn " \o decl.name \o "(" \o funcdecl_args_c(decl, st, et) \o ") "
      \o funcdecl_res_c(decl, st, et) \o ";">>

gen_func_zig(decl) == <<"// FIXME: zig function wrapper">>

\* the module for which gen_helper_funcs emits the recursive initializer
helper_needed(module) == module = "sokol_gfx"

init_with_lines ==
    << "fn init_with(target_ptr: anytype, opts: anytype) void {",
       "    switch (@typeInfo(@TypeOf(target_ptr.*" \o "))) {",
       "        .Array => {",
       "            inline for (opts) |item, i| {",
       "                init_with(&target_ptr.*[i], opts[i]);",
       "            }",
       "        },",
       "        .Struct => {",
       "            inline for (@typeInfo(@TypeOf(opts)).Struct.fields) |field| {",
       "                init_with(&@field(target_ptr.*, field.name), @field(opts, field.name));",
       "            }",
       "        },",
       "        else => {",
       "            target_ptr.* = opts;",
       "        }",
       "    }",
       "}" >>

gen_helper_funcs(doc) ==
    IF helper_needed(doc.module) THEN init_with_lines ELSE <<>>

\* the body of gen_module's emission loop for one declaration
gen_decl(decl, prefix, st, cst, et, ei) ==
    IF decl.kind = "struct" THEN gen_struct(decl, st, cst, et, ei)
    ELSE IF decl.kind = "consts" THEN gen_consts(decl, prefix)
    ELSE IF decl.kind = "enum" THEN gen_enum(decl)
    ELSE IF decl.kind = "func" THEN gen_func_c(decl, st, et) \o gen_func_zig(decl)
    ELSE <<>>

-----------------------------------------------------------------------------
(* Registry building *)

\* the body of pre_parse's loop for one declaration, on the four registries
pre_parse_decl(reg, decl) ==
    IF decl.kind = "struct" THEN
        LET st1 == Append(reg.st, decl.name)
        IN  [reg EXCEPT !.st = st1,
                        !.cst = IF struct_is_c_compatible(decl, st1, reg.cst)
                                THEN Append(reg.cst, decl.name) ELSE reg.cst]
    ELSE IF decl.kind = "enum" THEN
        [reg EXCEPT !.et = Append(reg.et, decl.name),
                    !.ei = (decl.name :> [i \in DOMAIN decl.items |->
                                             as_enum_item_name(decl.items[i].name)])
                           @@ reg.ei]
    ELSE reg

-----------------------------------------------------------------------------
(* Input documents: the output of the upstream header parser *)

Field(n, ty) == [name |-> n, type |-> ty]

Item(n, hv, v) == [name |-> n, has_value |-> hv, value |-> v]

Decl(k, n, fs, its, ty, ps) ==
    [kind |-> k, name |-> n, fields |-> fs, items |-> its, type |-> ty, params |-> ps]

StructDecl(n, fs) == Decl("struct", n, fs, <<>>, <<>>, <<>>)

EnumDecl(n, its) == Decl("enum", n, <<>>, its, <<>>, <<>>)

ConstsDecl(its) == Decl("consts", "", <<>>, its, <<>>, <<>>)

RECURSIVE ParamTokens(_)
\* the parameter list of a declarator: "void" when empty, else "t1, t2, ..."
ParamTokens(ps) ==
    IF ps = <<>> THEN <<"void">>
    ELSE IF Len(ps) = 1 THEN ps[1].type
    ELSE ps[1].type \o <<",", " ">> \o ParamTokens(Tail(ps))

\* a function declaration with its declarator "<res> (<params>)"
FuncDecl(n, res, ps) ==
    Decl("func", n, <<>>, <<>>, res \o <<" ", "(">> \o ParamTokens(ps) \o <<")">>, ps)

Doc(m, pre, ds) == [module |-> m, prefix |-> pre, decls |-> ds]

\* all sequences over S of length lo..hi
SeqsOf(S, lo, hi) == UNION {[1..n -> S] : n \in lo..hi}

UsageEnum ==
    EnumDecl("sg_usage",
             << Item("_SG_USAGE_DEFAULT", FALSE, ""),
                Item("SG_USAGE_IMMUTABLE", FALSE, ""),
                Item("SG_USAGE_3D", TRUE, "3"),
                Item("_SG_USAGE_FORCE_U32", TRUE, "0x7FFFFFFF") >>)

GfxConsts ==
    ConstsDecl(<< Item("SG_INVALID_ID", TRUE, "0"),
                  Item("SAPP_MAX_TOUCHPOINTS", TRUE, "8") >>)

PlainA == StructDecl("sg_a", <<Field("x", <<"float">>)>>)

SetupFunc ==
    FuncDecl("sg_setup", <<"void">>, <<Field("desc", <<"const", " ", "sg_a", " ", "*">>)>>)

\* the ordering family: short lists of small declarations in every order.
\* The generator accepts any list, so a struct may name itself or a struct
\* declared later, and a name may be declared twice.
OrderFieldTypes == {<<"int">>, <<"sg_a">>, <<"sg_b">>, <<"sg_usage">>}

OrderPool ==
    {StructDecl(n, <<Field("x", ty)>>) : n \in {"sg_a", "sg_b"}, ty \in OrderFieldTypes}
    \cup {UsageEnum, GfxConsts, SetupFunc}

Modules == {<<"sokol_gfx", "sg_">>, <<"sokol_app", "sapp_">>}

OrderDocs ==
    {Doc(m[1], m[2], ds) : m \in Modules, ds \in SeqsOf(OrderPool, 0, MaxDecls)}

\* the field family: one struct with every combination of field types,
\* after a struct and an enum it can refer to
FieldTypes ==
    { <<"uint8_t">>, <<"sg_a">>, <<"sg_usage">>,
      <<"const", " ", "char", " ", "*">>,
      <<"const", " ", "void", " ", "*">>,
      <<"void", " ", "*">>,
      <<"const", " ", "float", " ", "*">>,
      <<"const", " ", "sg_a", " ", "*">>,
      <<"void", " ", "(", "*", ")", "(", "const", " ", "void", " ", "*", ",", " ", "int", ")">>,
      <<"float", " ", "[", "4", "]">>,
      <<"sg_a", " ", "[", "2", "]">>,
      <<"const", " ", "void", " ", "*", "[", "2", "]">>,
      <<"sg_usage", " ", "[", "2", "]">>,
      <<"float", " ", "[", "2", "]", "[", "3", "]">>,
      <<"sg_a", " ", "[", "2", "]", "[", "3", "]">>,
      <<"sg_usage", " ", "[", "2", "]", "[", "3", "]">>,
      <<"uint32_t", " ", ":", " ", "4">>,
      <<"sg_a", " ", "*">> }

FieldName(i) == "f" \o ToString(i)

FieldLists ==
    {[i \in DOMAIN tys |-> Field(FieldName(i), tys[i])] : tys \in SeqsOf(FieldTypes, 1, MaxFields)}

FieldDocs ==
    {Doc("sokol_gfx", "sg_", <<PlainA, UsageEnum, StructDecl("sg_buffer_desc", fs)>>) :
        fs \in FieldLists}

\* the function family: one function with every combination of parameter
\* types, and every result type
ParamTypes ==
    { <<"int">>, <<"sg_a">>, <<"sg_usage">>,
      <<"const", " ", "char", " ", "*">>,
      <<"const", " ", "void", " ", "*">>,
      <<"void", " ", "*">>,
      <<"const", " ", "float", " ", "*">>,
      <<"const", " ", "sg_a", " ", "*">>,
      <<"sg_a", " ", "*">> }

ParamLists ==
    {[i \in DOMAIN tys |-> Field(FieldName(i), tys[i])] : tys \in SeqsOf(ParamTypes, 0, MaxFields)}

FuncDocs ==
    {Doc("sokol_gfx", "sg_", <<PlainA, UsageEnum, FuncDecl("sg_f", <<"void">>, ps)>>) :
        ps \in ParamLists}
    \cup
    {Doc("sokol_gfx", "sg_", <<PlainA, UsageEnum, FuncDecl("sg_f", res, <<>>)>>) :
        res \in ParamTypes}

Docs == OrderDocs \cup FieldDocs \cup FuncDocs

NoInp == Doc("", "", <<>>)

-----------------------------------------------------------------------------
(* The process: gen_zig, called up to MaxRuns times *)

\* the state after import: empty globals, and some document at input_path,
\* which every call of the process reads
Init ==
    /\ inp_file \in Docs
    /\ out_file = [exists |-> FALSE, text |-> <<>>]
    /\ pc = "idle"
    /\ inp = NoInp
    /\ idx = 1
    /\ struct_types = <<>>
    /\ c_struct_types = <<>>
    /\ enum_types = <<>>
    /\ enum_items = <<>>
    /\ out_lines = <<>>
    /\ reported = ""
    /\ runs = 0

\* gen_zig up to json.load: open(input_path) and the read either succeed or
\* raise an EnvironmentError, which the except clause prints
GenZigStart ==
    /\ pc \in {"idle", "done"}
    /\ runs < MaxRuns
    /\ runs' = runs + 1
    /\ idx' = 1
    /\ \E outcome \in {"ok", "open_error", "read_error"} :
        IF outcome = "ok"
        THEN /\ inp' = inp_file
             /\ pc' = "helper"
             /\ reported' = ""
        ELSE /\ inp' = NoInp
             /\ pc' = "done"
             /\ reported' = outcome
    /\ UNCHANGED <<inp_file, out_file, registries, out_lines>>

\* gen_module up to the call of pre_parse
GenModuleHead ==
    /\ pc = "helper"
    /\ out_lines' = out_lines
                    \o <<"// machine generated, do not edit", "", "//--- helper functions ---">>
                    \o gen_helper_funcs(inp)
    /\ pc' = "pre_parse"
    /\ idx' = 1
    /\ UNCHANGED <<inp_file, out_file, inp, registries, reported, runs>>

\* faulty variant: pre_parse returns after the first declaration
pre_parse_done_first(i, decls) == i > Len(decls) \/ i > 1

\* whether pre_parse's loop has visited every declaration
pre_parse_done(i, decls) == i > Len(decls)

\* one iteration of pre_parse's loop
PreParseStep ==
    /\ pc = "pre_parse"
    /\ ~pre_parse_done(idx, inp.decls)
    /\ LET reg == pre_parse_decl([st |-> struct_types, cst |-> c_struct_types,
                                  et |-> enum_types, ei |-> enum_items],
                                 inp.decls[idx])
       IN  /\ struct_types' = reg.st
           /\ c_struct_types' = reg.cst
           /\ enum_types' = reg.et
           /\ enum_items' = reg.ei
    /\ idx' = idx + 1
    /\ UNCHANGED <<inp_file, out_file, pc, inp, out_lines, reported, runs>>

\* gen_module between pre_parse and the emission loop
GenModuleApi ==
    /\ pc = "pre_parse"
    /\ pre_parse_done(idx, inp.decls)
    /\ out_lines' = Append(out_lines, "//--- API declarations ---")
    /\ pc' = "emit"
    /\ idx' = 1
    /\ UNCHANGED <<inp_file, out_file, inp, registries, reported, runs>>

\* faulty variant: the output is opened while declarations are still to be emitted
gen_module_done_early(i, decls) == i > Len(decls) \/ i > 1

\* whether gen_module's emission loop has visited every declaration, so that
\* gen_module returns into gen_zig's inner with statement
gen_module_done(i, decls) == i > Len(decls)

\* one iteration of gen_module's emission loop
EmitStep ==
    /\ pc = "emit"
    /\ ~gen_module_done(idx, inp.decls)
    /\ out_lines' = out_lines \o gen_decl(inp.decls[idx], inp.prefix, struct_types,
                                          c_struct_types, enum_types, enum_items)
    /\ idx' = idx + 1
    /\ UNCHANGED <<inp_file, out_file, pc, inp, registries, reported, runs>>

\* open(output_path, 'w') after gen_module returned: the file is created or
\* truncated, or the open raises an EnvironmentError
OpenOutput ==
    /\ pc = "emit"
    /\ gen_module_done(idx, inp.decls)
    /\ \E ok \in BOOLEAN :
        IF ok
        THEN /\ out_file' = [exists |-> TRUE, text |-> <<>>]
             /\ pc' = "write"
             /\ reported' = reported
        ELSE /\ out_file' = out_file
             /\ pc' = "done"
             /\ reported' = "output_error"
    /\ UNCHANGED <<inp_file, inp, idx, registries, out_lines, runs>>

\* f_outp.write(out_lines), the whole text in one call, and the end of both
\* with blocks
WriteOutput ==
    /\ pc = "write"
    /\ out_file' = [exists |-> TRUE, text |-> out_lines]
    /\ pc' = "done"
    /\ UNCHANGED <<inp_file, inp, idx, registries, out_lines, reported, runs>>

Next ==
    \/ GenZigStart
    \/ GenModuleHead
    \/ PreParseStep
    \/ GenModuleApi
    \/ EmitStep
    \/ OpenOutput
    \/ WriteOutput

Spec == Init /\ [][Next]_vars

-----------------------------------------------------------------------------
(* Whole-function views of pre_parse and gen_module *)

RECURSIVE pre_parse(_, _)
\* pre_parse(inp) on the registries reg
pre_parse(reg, decls) ==
    IF decls = <<>> THEN reg
    ELSE pre_parse(pre_parse_decl(reg, Head(decls)), Tail(decls))

RECURSIVE gen_decls(_, _, _)
\* the emission loop of gen_module
gen_decls(decls, prefix, reg) ==
    IF decls = <<>> THEN <<>>
    ELSE gen_decl(Head(decls), prefix, reg.st, reg.cst, reg.et, reg.ei)
         \o gen_decls(Tail(decls), prefix, reg)

\* the registries of a process that has not run gen_module yet
EmptyRegistries == [st |-> <<>>, cst |-> <<>>, et |-> <<>>, ei |-> <<>>]

\* the lines gen_module(doc) appends when it starts from the registries reg
gen_module(doc, reg) ==
    <<"// machine generated, do not edit", "", "//--- helper functions ---">>
    \o gen_helper_funcs(doc)
    \o <<"//--- API declarations ---">>
    \o gen_decls(doc.decls, doc.prefix, pre_parse(reg, doc.decls))

-----------------------------------------------------------------------------
(* Vocabulary of the properties *)

\* the declarations of the loaded document
decls == inp.decls

\* the declaration the last loop iteration has processed
last_decl == decls[idx - 1]

\* the lines a step appends to out_lines
NewLines == SubSeq(out_lines', Len(out_lines) + 1, Len(out_lines'))

\* the step is an iteration of the emission loop on a struct declaration
EmittingStruct ==
    /\ pc = "emit"
    /\ idx <= Len(decls)
    /\ decls[idx].kind = "struct"
    /\ out_lines' # out_lines

\* the struct and enum declarations of a list have pairwise different names
UniqueNames(ds) ==
    \A i, j \in DOMAIN ds :
        (i # j /\ ds[i].kind \in {"struct", "enum"} /\ ds[j].kind \in {"struct", "enum"})
            => ds[i].name # ds[j].name

\* a sequence without its i-th element
RemoveAt(s, i) == SubSeq(s, 1, i - 1) \o SubSeq(s, i + 1, Len(s))

-----------------------------------------------------------------------------
(* C1: after the registry-building pass, a struct D2 with a field of struct *)
(* type D1 is in the compatible-struct set only if D1 is declared before D2 *)
(* and D1 is in the compatible-struct set; a struct with a field of a       *)
(* struct declared later is never marked compatible.  Stated for the first  *)
(* run of a process and for lists whose declarations have different names.  *)
C1_ForwardNeverCompatible ==
    (pc = "emit" /\ runs = 1 /\ UniqueNames(decls)) =>
        \A i, j \in DOMAIN decls :
            ( /\ decls[i].kind = "struct"
              /\ decls[j].kind = "struct"
              /\ \E f \in DOMAIN decls[j].fields :
                    Text(decls[j].fields[f].type) = decls[i].name
              /\ decls[j].name \in Range(c_struct_types) )
            => (i < j /\ decls[i].name \in Range(c_struct_types))

(* C2: when pre_parse judges a struct declaration, the struct is appended  *)
(* to the compatible-struct list if and only if every field whose type     *)
(* string is in the struct-name registry at that moment (the struct's own  *)
(* name included) names a struct already in the compatible-struct list;    *)
(* fields of any other category do not count, and a struct that is not     *)
(* appended leaves the list as it was.                                     *)
C2_CompatibleIffStructFieldsCompatible ==
    [][ (pc = "pre_parse" /\ idx <= Len(decls) /\ decls[idx].kind = "struct") =>
          LET d == decls[idx]
              blocked == \E f \in DOMAIN d.fields :
                            /\ Text(d.fields[f].type) \in Range(struct_types')
                            /\ Text(d.fields[f].type) \notin Range(c_struct_types)
          IN  /\ struct_types' = Append(struct_types, d.name)
              /\ ~blocked => c_struct_types' = Append(c_struct_types, d.name)
              /\ blocked => c_struct_types' = c_struct_types
      ]_vars

\* a struct with a struct-typed field was judged incompatible, and the list
\* holds a struct with fields of other categories that was judged compatible
C2_Witness ==
    /\ pc = "pre_parse"
    /\ runs = 1
    /\ idx > 1
    /\ last_decl.kind = "struct"
    /\ \E f \in DOMAIN last_decl.fields :
          Text(last_decl.fields[f].type) \in Range(struct_types)
    /\ last_decl.name \notin Range(c_struct_types)
    /\ c_struct_types # <<>>

Unrecognized(s, st, et) ==
    /\ ~is_prim_type(s) /\ ~is_struct_type(s, st) /\ ~is_enum_type(s, et)
    /\ ~is_string_ptr(s) /\ ~is_const_void_ptr(s) /\ ~is_void_ptr(s)
    /\ ~is_prim_ptr(s) /\ ~is_struct_ptr(s, st) /\ ~is_func_ptr(s)
    /\ ~is_1d_array_type(s) /\ ~is_2d_array_type(s)

\* the comment-form placeholder of an unrecognized field
Placeholder(field) == "//  " \o field.name \o ": " \o Text(field.type) \o ";"

(* C4: when gen_struct emits a struct with a field whose type string       *)
(* matches none of the classifier's tests, the emitted lines hold the      *)
(* comment-form placeholder with the field's name and raw type string, and *)
(* without that line they are the lines gen_struct emits for the struct    *)
(* without that field.                                                     *)
C4_UnrecognizedFieldIsolated ==
    [][ EmittingStruct =>
          LET d == decls[idx] IN
          \A i \in DOMAIN d.fields :
              Unrecognized(d.fields[i].type, struct_types, enum_types) =>
                  \E k \in DOMAIN NewLines :
                      /\ NewLines[k] = Placeholder(d.fields[i])
                      /\ RemoveAt(NewLines, k)
                           = gen_struct([d EXCEPT !.fields = RemoveAt(d.fields, i)],
                                        struct_types, c_struct_types,
                                        enum_types, enum_items)
      ]_vars

\* a struct with an unrecognized field after a recognized one was emitted
C4_Witness ==
    /\ pc = "emit"
    /\ idx > 1
    /\ last_decl.kind = "struct"
    /\ Len(last_decl.fields) = 2
    /\ is_prim_type(last_decl.fields[1].type)
    /\ Unrecognized(last_decl.fields[2].type, struct_types, enum_types)
    /\ out_lines[Len(out_lines) - 1] = Placeholder(last_decl.fields[2])
    /\ out_lines[Len(out_lines) - 2] = "    f1: u8 = 0,"

(* C5: there is no state persisted between runs: after every successful    *)
(* run the written text and the four registries are those a first run on   *)
(* the run's input produces.                                               *)
C5_NoStateAcrossRuns ==
    (pc = "done" /\ reported = "") =>
        LET fresh == pre_parse(EmptyRegistries, decls) IN
        /\ out_file.text = gen_module(inp, EmptyRegistries)
        /\ struct_types = fresh.st
        /\ c_struct_types = fresh.cst
        /\ enum_types = fresh.et
        /\ enum_items = fresh.ei

\* the typed pointers of the type grammar: const pointer to a primitive or struct
is_typed_ptr(s, st) == is_prim_ptr(s) \/ is_struct_ptr(s, st)

\* every Zig spelling of a pointer type: a pointer prefix and a pointee
PointerPrefixes ==
    {"*", "?*", "[*]", "?[*]", "[*c]", "*const ", "?*const ", "[*]const ",
     "?[*]const ", "[*c]const "}

Pointees(st) ==
    {"u8", "c_void"} \cup {prim_types[p] : p \in DOMAIN prim_types}
    \cup {as_zig_type(st[i]) : i \in DOMAIN st}

PointerTypes(st) == {pre \o tgt : pre \in PointerPrefixes, tgt \in Pointees(st)}

(* C6: for every struct field whose type is a string pointer, an opaque    *)
(* pointer or a typed pointer (a const pointer to a primitive or to a      *)
(* known struct), gen_struct emits the field with a pointer type and the   *)
(* default value null.                                                     *)
C6_PointerFieldsDefaultNull ==
    [][ EmittingStruct =>
          LET d == decls[idx] IN
          \A i \in DOMAIN d.fields :
              ( \/ is_string_ptr(d.fields[i].type)
                \/ is_void_ptr(d.fields[i].type)
                \/ is_const_void_ptr(d.fields[i].type)
                \/ is_typed_ptr(d.fields[i].type, struct_types) )
              => \E k \in DOMAIN NewLines, ty \in PointerTypes(struct_types) :
                    NewLines[k] = "    " \o d.fields[i].name \o ": " \o ty \o " = null,"
      ]_vars

\* the foreign-interface types a parameter or result type string may be
\* rendered as, by category; the unresolved marker is none of them
ForeignTypes(s, st, et) ==
    IF Text(s) = "void" THEN {"void"}
    ELSE IF is_prim_type(s) THEN {prim_types[Text(s)]}
    ELSE IF is_struct_type(s, st) \/ is_enum_type(s, et) THEN {as_zig_type(Text(s))}
    ELSE IF \/ is_string_ptr(s) \/ is_void_ptr(s) \/ is_const_void_ptr(s)
            \/ is_typed_ptr(s, st)
         THEN PointerTypes(st)
    ELSE {"???"}

RECURSIVE ForeignArgs(_, _, _)
\* the argument lists a parameter list may be rendered as
ForeignArgs(params, st, et) ==
    IF params = <<>> THEN {""}
    ELSE IF Len(params) = 1 THEN ForeignTypes(params[1].type, st, et)
    ELSE {a \o ", " \o rest : a \in ForeignTypes(params[1].type, st, et),
                              rest \in ForeignArgs(Tail(params), st, et)}

(* C7: the foreign binding emitted for a function maps every parameter     *)
(* type and the result type by category: a primitive to its fixed-width    *)
(* type, a known struct or enum to its type name, a string, opaque or      *)
(* typed pointer to a raw pointer type, and none of these to ???.          *)
C7_BindingTypesByCategory ==
    [][ (pc = "emit" /\ idx <= Len(decls) /\ decls[idx].kind = "func"
         /\ out_lines' # out_lines) =>
          LET d == decls[idx]
              res == Strip(SubSeq(d.type, 1, IndexOf(d.type, "(") - 1))
          IN  \E args \in ForeignArgs(d.params, struct_types, enum_types),
                 r \in ForeignTypes(res, struct_types, enum_types) :
                    NewLines[1] = "pub extern fn " \o d.name \o "(" \o args \o ") " \o r \o ";"
      ]_vars

\* every struct, enum and enum item list of the document is registered
AllRegistered ==
    \A i \in DOMAIN decls :
        /\ decls[i].kind = "struct" => decls[i].name \in Range(struct_types)
        /\ decls[i].kind = "enum" =>
              /\ decls[i].name \in Range(enum_types)
              /\ decls[i].name \in DOMAIN enum_items
              /\ UniqueNames(decls) =>
                    Len(enum_items[decls[i].name]) = Len(decls[i].items)

\* the line of a field that names a struct or an enum of the document
NamedTypeLine(field) ==
    IF \E i \in DOMAIN decls : decls[i].kind = "struct" /\ decls[i].name = Text(field.type)
    THEN "    " \o field.name \o ": " \o as_zig_type(Text(field.type)) \o " = .{ },"
    ELSE "    " \o field.name \o ": " \o as_zig_type(Text(field.type)) \o " = ."
         \o enum_items[Text(field.type)][1] \o ","

(* C8: while gen_module emits declarations, the struct-name list, the      *)
(* enum-name list and the enum-item map hold every struct and enum of the  *)
(* whole declaration list, so a field naming a struct or enum declared     *)
(* anywhere in the list is emitted as that type, and no emission step      *)
(* changes any of the four registries.                                     *)
C8_RegistriesCompleteBeforeEmission ==
    [][ pc = "emit" =>
          /\ AllRegistered
          /\ registries' = registries
          /\ EmittingStruct =>
                \A f \in DOMAIN decls[idx].fields :
                    (\E i \in DOMAIN decls :
                        /\ decls[i].kind \in {"struct", "enum"}
                        /\ decls[i].name = Text(decls[idx].fields[f].type))
                    => \E k \in DOMAIN NewLines :
                          NewLines[k] = NamedTypeLine(decls[idx].fields[f])
      ]_vars

\* a struct with a field of an enum declared after it was emitted with the
\* enum's type and default item
C8_Witness ==
    /\ pc = "emit"
    /\ runs = 1
    /\ idx = 2
    /\ Len(decls) = 2
    /\ decls[1].kind = "struct"
    /\ decls[2].kind = "enum"
    /\ Text(decls[1].fields[1].type) = decls[2].name
    /\ out_lines[Len(out_lines) - 1] = "    x: Usage = .DEFAULT,"

\* the line of a struct's init function, which calls init_with
InitLine(name) ==
    "    pub fn init(options: anytype) " \o as_zig_type(name) \o " { var item: "
    \o as_zig_type(name) \o " = .{ }; init_with(&item, options); return item; }"

(* C9: whenever the written text holds a struct whose init function calls  *)
(* init_with, it also holds the definition of init_with.                   *)
C9_InitWithDefinedWhereUsed ==
    (pc = "done" /\ reported = "") =>
        ( (\E i \in DOMAIN decls :
              decls[i].kind = "struct" /\ InitLine(decls[i].name) \in Range(out_file.text))
          => init_with_lines[1] \in Range(out_file.text) )

(* C10: gen_struct emits exactly one line per field between the header and *)
(* init lines and the closing line: no field is dropped.                   *)
C10_OneLinePerField ==
    [][ EmittingStruct =>
          /\ Len(NewLines) = 3 + Len(decls[idx].fields)
          /\ NewLines[Len(NewLines)] = "};"
      ]_vars

====
